---- MODULE Spec2Model ----
(***************************************************************************)
(* Library circulation service (library_service.py): the catalog of books, *)
(* the borrow ledger and the operations add_book_to_catalog,               *)
(* borrow_book_by_patron and return_book_by_patron.  The store functions   *)
(* imported from the database module are modelled as operators on the two  *)
(* tables `books` and `borrow_records`.                                    *)
(***************************************************************************)
EXTENDS Integers, Sequences, FiniteSets, TLC

(* ------------------------------- bounds -------------------------------- *)
\* Spec: the circulation calls with well-formed and malformed arguments
MaxCopies == 2
MaxRecords == 2
\* SpecClock: the circulation calls as days pass
ClockCopies == 2
ClockMaxRecords == 2
MaxNow == 2
\* SpecLimit: one patron borrowing up to the limit
LimitCopies == 3
LimitMaxRecords == 6
MaxFeeNow == 35
FeeMaxRecords == 2
HistoryCopies == 2
HistoryMaxRecords == 2
MaxHistoryNow == 24
FailureCopies == 2
FailureMaxRecords == 2
RaceCopies == 2

(* -------------------------- program constants -------------------------- *)
MAX_TITLE_LEN == 200
MAX_AUTHOR_LEN == 100
ISBN_LEN == 13
PATRON_ID_LEN == 6
MAX_BORROW == 5
LOAN_DAYS == 14
\* return_date of a record that was not returned (Python None / SQL NULL)
None == -1
\* money is counted in cents
FEE_FIRST_WEEK_DAYS == 7
FEE_PER_DAY_FIRST_WEEK == 50
FEE_PER_DAY_AFTER == 100
MAX_LATE_FEE == 1500

(* ------------------------------- inputs -------------------------------- *)
Digits == {"0", "1", "2", "3", "4", "5", "6", "7", "8", "9"}
Whitespace == {" "}

PATRON_1 == <<"1", "2", "3", "4", "5", "6">>
PATRON_2 == <<"6", "5", "4", "3", "2", "1">>
PATRON_SHORT == <<"1", "2", "3", "4", "5">>
PATRON_ALPHA == <<"a", "b", "c", "d", "e", "f">>
PATRON_EMPTY == <<>>
PatronInputs == {PATRON_1, PATRON_2, PATRON_SHORT, PATRON_ALPHA, PATRON_EMPTY}

ISBN_1 == <<"1", "2", "3", "4", "5", "6", "7", "8", "9", "0", "1", "2", "3">>
ISBN_2 == <<"1", "2", "3", "4", "5", "6", "7", "8", "9", "0", "1", "2", "4">>
ISBN_SHORT == <<"1", "2", "3">>
ISBN_ALPHA == <<"a", "b", "c", "d", "e", "f", "g", "h", "i", "j", "k", "l", "m">>
IsbnInputs == {ISBN_1, ISBN_2, ISBN_SHORT}
AddIsbnInputs == IsbnInputs \cup {ISBN_ALPHA}

TITLE_PADDED == <<" ", "A", " ", "b", " ">>
TITLE_BLANK == <<" ", " ">>
TitleInputs == {TITLE_PADDED, TITLE_BLANK}

AUTHOR_PLAIN == <<"X", "y">>
AUTHOR_EMPTY == <<>>
AuthorInputs == {AUTHOR_PLAIN, AUTHOR_EMPTY}

CopyInputs == 0 .. MaxCopies
AddCopyInputs == (-1) .. MaxCopies
\* the ids of the books the two well-formed ISBNs can create, and an id
\* that is never assigned
BookIdInputs == {1, 2, 3}

\* The null transaction id, the fee quotation None and the reply of a gateway
\* that was not called.
NO_TRANSACTION == "None"
NoFeeInfo == [status |-> "None"]
NoReply ==
    [raises |-> FALSE, success |-> FALSE, transaction_id |-> NO_TRANSACTION,
     message |-> ""]

\* What process_payment does when called: it returns (success, transaction id,
\* message), where a success carries an id, or it raises with a text.
GatewayOutcomes ==
    {[raises |-> FALSE, success |-> TRUE, transaction_id |-> "txn_abc123",
      message |-> "Payment successful"],
     [raises |-> FALSE, success |-> FALSE, transaction_id |-> NO_TRANSACTION,
      message |-> "Insufficient funds"],
     [raises |-> FALSE, success |-> FALSE, transaction_id |-> "txn_declined",
      message |-> "Declined"],
     [raises |-> TRUE, success |-> FALSE, transaction_id |-> NO_TRANSACTION,
      message |-> "Network timeout"]}

\* The fee quotations the payment is run against when the quotation is
\* replaced by a stub: None, no fee_amount, zero, negative, positive.
FeeInfoInputs ==
    {NoFeeInfo,
     [status |-> "overdue", days_overdue |-> 5],
     [fee_amount |-> 0, days_overdue |-> 0, status |-> "on time"],
     [fee_amount |-> -500, days_overdue |-> 0, status |-> "error"],
     [fee_amount |-> 750, days_overdue |-> 15, status |-> "overdue"]}

\* What refund_payment does when called: it returns (success, message) or
\* raises with a text.
RefundOutcomes ==
    {[raises |-> FALSE, success |-> TRUE, transaction_id |-> NO_TRANSACTION,
      message |-> "Refund processed successfully"],
     [raises |-> FALSE, success |-> FALSE, transaction_id |-> NO_TRANSACTION,
      message |-> "Transaction not found"],
     [raises |-> TRUE, success |-> FALSE, transaction_id |-> NO_TRANSACTION,
      message |-> "API connection failed"]}

\* The arguments of the refunds: transaction ids and amounts in cents.
RefundIdInputs == {"txn_abc123", "txn_notfound"}
RefundAmountInputs == {1, 850, MAX_LATE_FEE}

\* An argument of the search is a string, or a value that is no string
\* (123, None) and is true or false as a condition.
Str(chars) == [is_str |-> TRUE, truthy |-> chars # <<>>, chars |-> chars]
NonStr(truthy) == [is_str |-> FALSE, truthy |-> truthy, chars |-> <<>>]

TITLE_GAT == <<"G", "a", "t">>
SearchTitleInputs == {TITLE_PADDED, TITLE_GAT}
TERM_A == Str(<<" ", "a">>)
TERM_AT == Str(<<"A", "T">>)
TERM_AUTHOR == Str(<<"x", "Y">>)
TERM_ISBN == Str(ISBN_1)
TERM_EMPTY == Str(<<>>)
TERM_BLANK == Str(<<" ", " ", " ">>)
TERM_123 == NonStr(TRUE)
TERM_NONE == NonStr(FALSE)
TermInputs ==
    {TERM_A, TERM_AT, TERM_AUTHOR, TERM_ISBN, TERM_EMPTY, TERM_BLANK, TERM_123,
     TERM_NONE}

TYPE_TITLE == Str(<<"t", "i", "t", "l", "e">>)
TYPE_TITLE_UPPER == Str(<<" ", "T", "I", "T", "L", "E">>)
TYPE_AUTHOR == Str(<<"a", "u", "t", "h", "o", "r">>)
TYPE_ISBN == Str(<<"I", "s", "b", "n">>)
TYPE_INVALID == Str(<<"i", "n", "v", "a", "l", "i", "d">>)
TYPE_EMPTY == Str(<<>>)
TYPE_123 == NonStr(TRUE)
TypeInputs ==
    {TYPE_TITLE, TYPE_TITLE_UPPER, TYPE_AUTHOR, TYPE_ISBN, TYPE_INVALID,
     TYPE_EMPTY, TYPE_123}

\* Two callers run borrow_book_by_patron at the same time, each for its patron.
Callers == {1, 2}
CallerPatron == <<PATRON_1, PATRON_2>>
IdleCall ==
    [pc |-> "idle", patron_id |-> <<>>, book_id |-> 0, seen |-> 0,
     success |-> FALSE, message |-> ""]

(* ------------------------------- state --------------------------------- *)
VARIABLES
    books,      \* table books: row i is the book with id i
    ledger,     \* table borrow_records, in insertion order
    now,        \* datetime.now(), in whole days
    result,     \* the last call and the value it returned
    calls       \* the borrow calls in progress, one per caller

vars == <<books, ledger, now, result, calls>>

(* --------------------------- string helpers ---------------------------- *)
\* str.strip(): leading and trailing whitespace removed
RECURSIVE lstrip(_)
lstrip(s) ==
    IF s = <<>> THEN <<>>
    ELSE IF Head(s) \in Whitespace THEN lstrip(Tail(s)) ELSE s

RECURSIVE rstrip(_)
rstrip(s) ==
    IF s = <<>> THEN <<>>
    ELSE IF s[Len(s)] \in Whitespace THEN rstrip(SubSeq(s, 1, Len(s) - 1)) ELSE s

strip(s) == rstrip(lstrip(s))

\* str.isdigit(): non-empty and every character a digit
isdigit(s) == s # <<>> /\ \A i \in 1 .. Len(s) : s[i] \in Digits

\* `not patron_id or not patron_id.isdigit() or len(patron_id) != 6`
InvalidPatronId(patron_id) ==
    \/ patron_id = <<>>
    \/ ~isdigit(patron_id)
    \/ Len(patron_id) # PATRON_ID_LEN

\* The characters in the order of their codes.
Chars ==
    <<" ", "0", "1", "2", "3", "4", "5", "6", "7", "8", "9",
      "A", "B", "C", "D", "E", "F", "G", "H", "I", "J", "K", "L", "M",
      "N", "O", "P", "Q", "R", "S", "T", "U", "V", "W", "X", "Y", "Z",
      "a", "b", "c", "d", "e", "f", "g", "h", "i", "j", "k", "l", "m",
      "n", "o", "p", "q", "r", "s", "t", "u", "v", "w", "x", "y", "z">>

ord(c) == CHOOSE i \in 1 .. Len(Chars) : Chars[i] = c
isupper(c) == \E i \in 1 .. Len(Chars) : Chars[i] = c /\ Chars[i] \in
    {"A", "B", "C", "D", "E", "F", "G", "H", "I", "J", "K", "L", "M",
     "N", "O", "P", "Q", "R", "S", "T", "U", "V", "W", "X", "Y", "Z"}

\* str.lower
lower(s) ==
    [i \in 1 .. Len(s) |->
        IF isupper(s[i]) THEN Chars[ord(s[i]) + (ord("a") - ord("A"))] ELSE s[i]]

\* term in value: term is a substring of value
In(term, value) ==
    \E i \in 0 .. Len(value) - Len(term) :
        SubSeq(value, i + 1, i + Len(term)) = term

\* s comes before t, or is t, in the order of the character codes
RECURSIVE StrLeq(_, _)
StrLeq(s, t) ==
    IF s = <<>> THEN TRUE
    ELSE IF t = <<>> THEN FALSE
    ELSE IF Head(s) = Head(t) THEN StrLeq(Tail(s), Tail(t))
    ELSE ord(Head(s)) < ord(Head(t))

(* ---------------------------- store: reads ----------------------------- *)
\* The store functions take the table they read or write as first argument.

\* get_book_by_id: the row with that id, or None (FoundBook is false)
FoundBook(bks, book_id) == book_id \in 1 .. Len(bks)
get_book_by_id(bks, book_id) == bks[book_id]

\* get_book_by_isbn: the ids of the rows with that isbn (empty: None)
get_book_by_isbn(bks, isbn) == {i \in 1 .. Len(bks) : bks[i].isbn = isbn}

IsOpen(r) == r.return_date = None

\* get_patron_borrowed_books: the rows of the patron's open records
get_patron_borrowed_books(ldg, patron_id) ==
    {i \in 1 .. Len(ldg) : ldg[i].patron_id = patron_id /\ IsOpen(ldg[i])}

\* get_patron_borrow_count: the number of the patron's open records
get_patron_borrow_count(ldg, patron_id) ==
    Cardinality(get_patron_borrowed_books(ldg, patron_id))

\* get_all_books: the ids of all rows, sorted by title (rows with the same
\* title in id order)
RECURSIVE SortByTitle(_, _)
SortByTitle(bks, ids) ==
    IF ids = {} THEN <<>>
    ELSE LET first == CHOOSE i \in ids : \A j \in ids :
                          \/ bks[i].title # bks[j].title /\ StrLeq(bks[i].title, bks[j].title)
                          \/ bks[i].title = bks[j].title /\ i <= j
         IN  <<first>> \o SortByTitle(bks, ids \ {first})

get_all_books(bks) == SortByTitle(bks, 1 .. Len(bks))

(* ---------------------------- store: writes ---------------------------- *)
insert_book(bks, title, author, isbn, total_copies, available_copies) ==
    Append(bks, [title |-> title, author |-> author, isbn |-> isbn,
                 total_copies |-> total_copies,
                 available_copies |-> available_copies])

insert_borrow_record(ldg, patron_id, book_id, borrow_date, due_date) ==
    Append(ldg, [patron_id |-> patron_id, book_id |-> book_id,
                 borrow_date |-> borrow_date, due_date |-> due_date,
                 return_date |-> None])

\* adjusts the available-copy count of the book by change_amount
update_book_availability(bks, book_id, change_amount) ==
    [bks EXCEPT ![book_id].available_copies = @ + change_amount]

\* The call names a record by (patron_id, book_id) only: every open record
\* with that key gets the return date.
update_borrow_record_return_date(ldg, patron_id, book_id, return_date) ==
    [i \in 1 .. Len(ldg) |->
        IF /\ ldg[i].patron_id = patron_id
           /\ ldg[i].book_id = book_id
           /\ IsOpen(ldg[i])
        THEN [ldg[i] EXCEPT !.return_date = return_date]
        ELSE ldg[i]]

(* ------------------------------ results -------------------------------- *)
NoArg == <<>>
\* The fields a call can fill: its arguments and the value it returned.
BlankResult ==
    [op |-> "none", patron_id |-> NoArg, book_id |-> 0, title |-> NoArg,
     author |-> NoArg, isbn |-> NoArg, total_copies |-> 0, success |-> FALSE,
     message |-> "", status |-> "", fee_amount |-> 0, days_overdue |-> 0,
     currently_borrowed |-> <<>>, books_borrowed_count |-> 0,
     borrowing_history |-> <<>>, total_late_fees |-> 0,
     detail |-> "", transaction_id |-> NO_TRANSACTION, quote |-> NoFeeInfo,
     stubbed |-> FALSE, gateway_calls |-> <<>>, gateway_reply |-> NoReply,
     raised |-> FALSE, amount |-> 0,
     search_term |-> NoArg, search_type |-> NoArg, results |-> <<>>,
     store |-> <<TRUE, TRUE>>, book_found |-> FALSE]

Result(op, patron_id, book_id, isbn, total_copies, success, message) ==
    [BlankResult EXCEPT !.op = op, !.patron_id = patron_id, !.book_id = book_id,
                        !.isbn = isbn, !.total_copies = total_copies,
                        !.success = success, !.message = message]

NoResult == BlankResult

\* The success messages, without the title and the date they quote.
ADDED == "Book has been successfully added to the catalog."
BORROWED == "Successfully borrowed. Due date:"
RETURNED == "Successfully returned."
INVALID_PATRON == "Invalid patron ID. Must be exactly 6 digits."
BOOK_NOT_FOUND == "Book not found."
NOT_AVAILABLE == "This book is currently not available."
LIMIT_REACHED == "You have reached the maximum borrowing limit of 5 books."
NOT_BORROWED == "This book is not borrowed by the patron."
ERR_INSERT_RECORD == "Database error occurred while creating borrow record."
ERR_UPDATE_RECORD == "Database error occurred while updating borrow record."
ERR_AVAILABILITY == "Database error occurred while updating book availability."

(* -------------------------- add_book_to_catalog ------------------------ *)
\* The message returned; insert_ok is what insert_book returns.
AddMessage_ZeroCopies(bks, title, author, isbn, total_copies, insert_ok) ==
    IF title = <<>> \/ strip(title) = <<>> THEN "Title is required."
    ELSE IF Len(strip(title)) > MAX_TITLE_LEN
        THEN "Title must be less than 200 characters."
    ELSE IF author = <<>> \/ strip(author) = <<>> THEN "Author is required."
    ELSE IF Len(strip(author)) > MAX_AUTHOR_LEN
        THEN "Author must be less than 100 characters."
    ELSE IF Len(isbn) # ISBN_LEN THEN "ISBN must be exactly 13 digits."
    ELSE IF total_copies < 0 THEN "Total copies must be a positive integer."
    ELSE IF get_book_by_isbn(bks, isbn) # {}
        THEN "A book with this ISBN already exists."
    ELSE IF insert_ok THEN ADDED
    ELSE "Database error occurred while adding the book."

AddMessage_NoDuplicateCheck(bks, title, author, isbn, total_copies, insert_ok) ==
    IF title = <<>> \/ strip(title) = <<>> THEN "Title is required."
    ELSE IF Len(strip(title)) > MAX_TITLE_LEN
        THEN "Title must be less than 200 characters."
    ELSE IF author = <<>> \/ strip(author) = <<>> THEN "Author is required."
    ELSE IF Len(strip(author)) > MAX_AUTHOR_LEN
        THEN "Author must be less than 100 characters."
    ELSE IF Len(isbn) # ISBN_LEN THEN "ISBN must be exactly 13 digits."
    ELSE IF total_copies <= 0 THEN "Total copies must be a positive integer."
    ELSE IF insert_ok THEN ADDED
    ELSE "Database error occurred while adding the book."

AddMessage(bks, title, author, isbn, total_copies, insert_ok) ==
    IF title = <<>> \/ strip(title) = <<>> THEN "Title is required."
    ELSE IF Len(strip(title)) > MAX_TITLE_LEN
        THEN "Title must be less than 200 characters."
    ELSE IF author = <<>> \/ strip(author) = <<>> THEN "Author is required."
    ELSE IF Len(strip(author)) > MAX_AUTHOR_LEN
        THEN "Author must be less than 100 characters."
    ELSE IF Len(isbn) # ISBN_LEN THEN "ISBN must be exactly 13 digits."
    ELSE IF total_copies <= 0 THEN "Total copies must be a positive integer."
    ELSE IF get_book_by_isbn(bks, isbn) # {}
        THEN "A book with this ISBN already exists."
    ELSE IF insert_ok THEN ADDED
    ELSE "Database error occurred while adding the book."

\* The table books after the call.
AddBooks(bks, title, author, isbn, total_copies, insert_ok) ==
    IF AddMessage(bks, title, author, isbn, total_copies, insert_ok) = ADDED
    THEN insert_book(bks, strip(title), strip(author), isbn,
                     total_copies, total_copies)
    ELSE bks

add_book_to_catalog(title, author, isbn, total_copies, insert_ok) ==
    LET message == AddMessage(books, title, author, isbn, total_copies, insert_ok)
    IN  /\ books' = AddBooks(books, title, author, isbn, total_copies, insert_ok)
        /\ result' = [Result("add", NoArg, 0, isbn, total_copies,
                              message = ADDED, message)
                          EXCEPT !.title = title, !.author = author]
        /\ UNCHANGED <<ledger, now, calls>>

(* ------------------------- borrow_book_by_patron ----------------------- *)
\* The message returned; insert_ok and update_ok are what
\* insert_borrow_record and update_book_availability return.
BorrowMessage_NoAvailabilityCheck(bks, ldg, patron_id, book_id, insert_ok, update_ok) ==
    IF InvalidPatronId(patron_id) THEN INVALID_PATRON
    ELSE IF ~FoundBook(bks, book_id) THEN BOOK_NOT_FOUND
    ELSE IF get_patron_borrow_count(ldg, patron_id) >= MAX_BORROW THEN LIMIT_REACHED
    ELSE IF ~insert_ok THEN ERR_INSERT_RECORD
    ELSE IF ~update_ok THEN ERR_AVAILABILITY
    ELSE BORROWED

BorrowMessage_LimitOffByOne(bks, ldg, patron_id, book_id, insert_ok, update_ok) ==
    IF InvalidPatronId(patron_id) THEN INVALID_PATRON
    ELSE IF ~FoundBook(bks, book_id) THEN BOOK_NOT_FOUND
    ELSE IF get_book_by_id(bks, book_id).available_copies <= 0 THEN NOT_AVAILABLE
    ELSE IF get_patron_borrow_count(ldg, patron_id) > MAX_BORROW THEN LIMIT_REACHED
    ELSE IF ~insert_ok THEN ERR_INSERT_RECORD
    ELSE IF ~update_ok THEN ERR_AVAILABILITY
    ELSE BORROWED

BorrowMessage_LimitBeforeAvailability(bks, ldg, patron_id, book_id, insert_ok, update_ok) ==
    IF InvalidPatronId(patron_id) THEN INVALID_PATRON
    ELSE IF ~FoundBook(bks, book_id) THEN BOOK_NOT_FOUND
    ELSE IF get_patron_borrow_count(ldg, patron_id) >= MAX_BORROW THEN LIMIT_REACHED
    ELSE IF get_book_by_id(bks, book_id).available_copies <= 0 THEN NOT_AVAILABLE
    ELSE IF ~insert_ok THEN ERR_INSERT_RECORD
    ELSE IF ~update_ok THEN ERR_AVAILABILITY
    ELSE BORROWED

BorrowMessage(bks, ldg, patron_id, book_id, insert_ok, update_ok) ==
    IF InvalidPatronId(patron_id) THEN INVALID_PATRON
    ELSE IF ~FoundBook(bks, book_id) THEN BOOK_NOT_FOUND
    ELSE IF get_book_by_id(bks, book_id).available_copies <= 0 THEN NOT_AVAILABLE
    ELSE IF get_patron_borrow_count(ldg, patron_id) >= MAX_BORROW THEN LIMIT_REACHED
    ELSE IF ~insert_ok THEN ERR_INSERT_RECORD
    ELSE IF ~update_ok THEN ERR_AVAILABILITY
    ELSE BORROWED

\* The table borrow_records after the call at instant t: the record is
\* inserted once the four checks passed and the insert itself succeeded.
BorrowLedger_NoLoanPeriod(bks, ldg, t, patron_id, book_id, insert_ok, update_ok) ==
    IF BorrowMessage(bks, ldg, patron_id, book_id, insert_ok, update_ok)
           \in {BORROWED, ERR_AVAILABILITY}
    THEN insert_borrow_record(ldg, patron_id, book_id, t, t)
    ELSE ldg

BorrowLedger_InsertBeforeChecks(bks, ldg, t, patron_id, book_id, insert_ok, update_ok) ==
    IF BorrowMessage(bks, ldg, patron_id, book_id, insert_ok, update_ok)
           \in {BORROWED, ERR_AVAILABILITY, NOT_AVAILABLE, LIMIT_REACHED}
    THEN insert_borrow_record(ldg, patron_id, book_id, t, t + LOAN_DAYS)
    ELSE ldg

BorrowLedger_RollsBack(bks, ldg, t, patron_id, book_id, insert_ok, update_ok) ==
    LET borrow_date == t
        due_date == borrow_date + LOAN_DAYS
    IN  IF BorrowMessage(bks, ldg, patron_id, book_id, insert_ok, update_ok) = BORROWED
        THEN insert_borrow_record(ldg, patron_id, book_id, borrow_date, due_date)
        ELSE ldg

BorrowLedger(bks, ldg, t, patron_id, book_id, insert_ok, update_ok) ==
    LET borrow_date == t
        due_date == borrow_date + LOAN_DAYS
    IN  IF BorrowMessage(bks, ldg, patron_id, book_id, insert_ok, update_ok)
               \in {BORROWED, ERR_AVAILABILITY}
        THEN insert_borrow_record(ldg, patron_id, book_id, borrow_date, due_date)
        ELSE ldg

\* The table books after the call.
BorrowBooks(bks, ldg, patron_id, book_id, insert_ok, update_ok) ==
    IF BorrowMessage(bks, ldg, patron_id, book_id, insert_ok, update_ok) = BORROWED
    THEN update_book_availability(bks, book_id, -1)
    ELSE bks

borrow_book_by_patron(patron_id, book_id, insert_ok, update_ok) ==
    LET message == BorrowMessage(books, ledger, patron_id, book_id, insert_ok, update_ok)
    IN  /\ ledger' = BorrowLedger(books, ledger, now, patron_id, book_id,
                                  insert_ok, update_ok)
        /\ books' = BorrowBooks(books, ledger, patron_id, book_id, insert_ok, update_ok)
        /\ result' = [Result("borrow", patron_id, book_id, NoArg, 0,
                              message = BORROWED, message)
                          EXCEPT !.store = <<insert_ok, update_ok>>]
        /\ UNCHANGED <<now, calls>>

(* ---------------- borrow_book_by_patron, store call by store call ------ *)
\* The call of caller c goes through its store calls one at a time; between
\* two of them the other caller may run.
Finish(c, success, message) ==
    calls' = [calls EXCEPT ![c].pc = "done", ![c].success = success,
                           ![c].message = message]

\* the call is made; the patron id is checked
BorrowStart(c, book_id) ==
    /\ calls[c].pc = "idle"
    /\ IF InvalidPatronId(CallerPatron[c])
       THEN calls' = [calls EXCEPT ![c] = [IdleCall EXCEPT
                         !.pc = "done", !.patron_id = CallerPatron[c],
                         !.book_id = book_id, !.message = INVALID_PATRON]]
       ELSE calls' = [calls EXCEPT ![c] = [IdleCall EXCEPT
                         !.pc = "get_book", !.patron_id = CallerPatron[c],
                         !.book_id = book_id]]
    /\ UNCHANGED <<books, ledger, now, result>>

\* get_book_by_id and the check of available_copies on the row it returned
BorrowGetBook(c) ==
    /\ calls[c].pc = "get_book"
    /\ IF ~FoundBook(books, calls[c].book_id)
       THEN Finish(c, FALSE, BOOK_NOT_FOUND)
       ELSE LET book == get_book_by_id(books, calls[c].book_id)
            IN  IF book.available_copies <= 0
                THEN calls' = [calls EXCEPT ![c].pc = "done",
                                            ![c].seen = book.available_copies,
                                            ![c].message = NOT_AVAILABLE]
                ELSE calls' = [calls EXCEPT ![c].pc = "count",
                                            ![c].seen = book.available_copies]
    /\ UNCHANGED <<books, ledger, now, result>>

\* get_patron_borrow_count and the check of the limit
BorrowCount(c) ==
    /\ calls[c].pc = "count"
    /\ IF get_patron_borrow_count(ledger, calls[c].patron_id) >= MAX_BORROW
       THEN Finish(c, FALSE, LIMIT_REACHED)
       ELSE calls' = [calls EXCEPT ![c].pc = "insert"]
    /\ UNCHANGED <<books, ledger, now, result>>

\* insert_borrow_record
BorrowInsert(c) ==
    /\ calls[c].pc = "insert"
    /\ ledger' = insert_borrow_record(ledger, calls[c].patron_id, calls[c].book_id,
                                      now, now + LOAN_DAYS)
    /\ calls' = [calls EXCEPT ![c].pc = "update"]
    /\ UNCHANGED <<books, now, result>>

\* update_book_availability(book_id, -1) and the return
BorrowUpdate_ChecksAgain(c) ==
    /\ calls[c].pc = "update"
    /\ IF get_book_by_id(books, calls[c].book_id).available_copies <= 0
       THEN Finish(c, FALSE, NOT_AVAILABLE) /\ UNCHANGED books
       ELSE /\ books' = update_book_availability(books, calls[c].book_id, -1)
            /\ Finish(c, TRUE, BORROWED)
    /\ UNCHANGED <<ledger, now, result>>

BorrowUpdate(c) ==
    /\ calls[c].pc = "update"
    /\ books' = update_book_availability(books, calls[c].book_id, -1)
    /\ Finish(c, TRUE, BORROWED)
    /\ UNCHANGED <<ledger, now, result>>

(* ------------------------- return_book_by_patron ----------------------- *)
\* The records of get_patron_borrowed_books with record['book_id'] == book_id;
\* the code takes the first of them, or None when there is none.
BorrowRecordsFor(ldg, patron_id, book_id) ==
    {i \in get_patron_borrowed_books(ldg, patron_id) : ldg[i].book_id = book_id}

\* The message returned; close_ok and update_ok are what
\* update_borrow_record_return_date and update_book_availability return.
ReturnMessage_AnyPatron(bks, ldg, patron_id, book_id, close_ok, update_ok) ==
    IF InvalidPatronId(patron_id) THEN INVALID_PATRON
    ELSE IF ~FoundBook(bks, book_id) THEN BOOK_NOT_FOUND
    ELSE IF \A i \in 1 .. Len(ldg) : ~(ldg[i].book_id = book_id /\ IsOpen(ldg[i]))
        THEN NOT_BORROWED
    ELSE IF ~close_ok THEN ERR_UPDATE_RECORD
    ELSE IF ~update_ok THEN ERR_AVAILABILITY
    ELSE RETURNED

ReturnMessage(bks, ldg, patron_id, book_id, close_ok, update_ok) ==
    IF InvalidPatronId(patron_id) THEN INVALID_PATRON
    ELSE IF ~FoundBook(bks, book_id) THEN BOOK_NOT_FOUND
    ELSE IF BorrowRecordsFor(ldg, patron_id, book_id) = {} THEN NOT_BORROWED
    ELSE IF ~close_ok THEN ERR_UPDATE_RECORD
    ELSE IF ~update_ok THEN ERR_AVAILABILITY
    ELSE RETURNED

\* The table without the given rows.
RemoveRows(ldg, rows) ==
    LET F[n \in 0 .. Len(ldg)] ==
            IF n = 0 THEN <<>>
            ELSE IF n \in rows THEN F[n - 1] ELSE Append(F[n - 1], ldg[n])
    IN  F[Len(ldg)]

\* The table borrow_records after the call at instant t.
ReturnLedger_DeletesRecord(bks, ldg, t, patron_id, book_id, close_ok, update_ok) ==
    IF ReturnMessage(bks, ldg, patron_id, book_id, close_ok, update_ok)
           \in {RETURNED, ERR_AVAILABILITY}
    THEN RemoveRows(ldg, BorrowRecordsFor(ldg, patron_id, book_id))
    ELSE ldg

ReturnLedger_ClosesAllForBook(bks, ldg, t, patron_id, book_id, close_ok, update_ok) ==
    IF ReturnMessage(bks, ldg, patron_id, book_id, close_ok, update_ok)
           \in {RETURNED, ERR_AVAILABILITY}
    THEN [i \in 1 .. Len(ldg) |->
             IF ldg[i].book_id = book_id /\ IsOpen(ldg[i])
             THEN [ldg[i] EXCEPT !.return_date = t]
             ELSE ldg[i]]
    ELSE ldg

ReturnLedger(bks, ldg, t, patron_id, book_id, close_ok, update_ok) ==
    IF ReturnMessage(bks, ldg, patron_id, book_id, close_ok, update_ok)
           \in {RETURNED, ERR_AVAILABILITY}
    THEN update_borrow_record_return_date(ldg, patron_id, book_id, t)
    ELSE ldg

\* The table books after the call.
ReturnBooks(bks, ldg, patron_id, book_id, close_ok, update_ok) ==
    IF ReturnMessage(bks, ldg, patron_id, book_id, close_ok, update_ok) = RETURNED
    THEN update_book_availability(bks, book_id, 1)
    ELSE bks

return_book_by_patron(patron_id, book_id, close_ok, update_ok) ==
    LET message == ReturnMessage(books, ledger, patron_id, book_id, close_ok, update_ok)
    IN  /\ ledger' = ReturnLedger(books, ledger, now, patron_id, book_id,
                                  close_ok, update_ok)
        /\ books' = ReturnBooks(books, ledger, patron_id, book_id, close_ok, update_ok)
        /\ result' = Result("return", patron_id, book_id, NoArg, 0,
                            message = RETURNED, message)
        /\ UNCHANGED <<now, calls>>

(* ---------------------- calculate_late_fee_for_book -------------------- *)
Max(a, b) == IF a >= b THEN a ELSE b
Min(a, b) == IF a <= b THEN a ELSE b

\* The flag is_overdue that get_patron_borrowed_books derives for an open
\* record at time t.
is_overdue(r, t) == t > r.due_date

\* The fee, in cents, for a number of days past the due date.
LateFeeAmount_NoCap(days) ==
    LET days_overdue == Max(0, days)
    IN  IF days_overdue <= FEE_FIRST_WEEK_DAYS
        THEN days_overdue * FEE_PER_DAY_FIRST_WEEK
        ELSE FEE_FIRST_WEEK_DAYS * FEE_PER_DAY_FIRST_WEEK
             + (days_overdue - FEE_FIRST_WEEK_DAYS) * FEE_PER_DAY_AFTER

LateFeeAmount(days) ==
    LET days_overdue == Max(0, days)
        fee_amount ==
            IF days_overdue <= FEE_FIRST_WEEK_DAYS
            THEN days_overdue * FEE_PER_DAY_FIRST_WEEK
            ELSE FEE_FIRST_WEEK_DAYS * FEE_PER_DAY_FIRST_WEEK
                 + (days_overdue - FEE_FIRST_WEEK_DAYS) * FEE_PER_DAY_AFTER
    IN  Min(fee_amount, MAX_LATE_FEE)

LateFee(fee_amount, days_overdue, status) ==
    [fee_amount |-> fee_amount, days_overdue |-> days_overdue, status |-> status]

\* The first open record of the patron for the book: a row of the table.
FirstBorrowRecord(ldg, patron_id, book_id) ==
    LET rows == BorrowRecordsFor(ldg, patron_id, book_id)
    IN  CHOOSE i \in rows : \A j \in rows : i <= j

\* The dictionary returned at time t.
CalculateLateFee_ReturnedStillOwes(bks, ldg, t, patron_id, book_id) ==
    LET rows == {i \in 1 .. Len(ldg) :
                    ldg[i].patron_id = patron_id /\ ldg[i].book_id = book_id}
        r == ldg[CHOOSE i \in rows : \A j \in rows : i <= j]
    IN  IF InvalidPatronId(patron_id) THEN LateFee(0, 0, "invalid patron ID")
        ELSE IF ~FoundBook(bks, book_id) THEN LateFee(0, 0, "invalid book ID")
        ELSE IF rows = {} THEN LateFee(0, 0, "no borrow record")
        ELSE IF is_overdue(r, t)
            THEN LateFee(LateFeeAmount(t - r.due_date), Max(0, t - r.due_date),
                         "overdue")
        ELSE LateFee(0, 0, "on time")

CalculateLateFee(bks, ldg, t, patron_id, book_id) ==
    IF InvalidPatronId(patron_id) THEN LateFee(0, 0, "invalid patron ID")
    ELSE IF ~FoundBook(bks, book_id) THEN LateFee(0, 0, "invalid book ID")
    ELSE IF BorrowRecordsFor(ldg, patron_id, book_id) = {}
        THEN LateFee(0, 0, "no borrow record")
    ELSE LET borrow_record == ldg[FirstBorrowRecord(ldg, patron_id, book_id)]
         IN  IF is_overdue(borrow_record, t)
             THEN LateFee(LateFeeAmount(t - borrow_record.due_date),
                          Max(0, t - borrow_record.due_date), "overdue")
             ELSE LateFee(0, 0, "on time")

calculate_late_fee_for_book_ExtendsLoan(patron_id, book_id) ==
    LET fee == CalculateLateFee(books, ledger, now, patron_id, book_id)
    IN  /\ result' = [BlankResult EXCEPT !.op = "late_fee",
                                         !.patron_id = patron_id,
                                         !.book_id = book_id,
                                         !.fee_amount = fee.fee_amount,
                                         !.days_overdue = fee.days_overdue,
                                         !.status = fee.status]
        /\ ledger' = IF fee.status = "overdue"
                     THEN [ledger EXCEPT
                              ![FirstBorrowRecord(ledger, patron_id, book_id)].due_date = now]
                     ELSE ledger
        /\ UNCHANGED <<books, now, calls>>

calculate_late_fee_for_book(patron_id, book_id) ==
    LET fee == CalculateLateFee(books, ledger, now, patron_id, book_id)
    IN  /\ result' = [BlankResult EXCEPT !.op = "late_fee",
                                         !.patron_id = patron_id,
                                         !.book_id = book_id,
                                         !.fee_amount = fee.fee_amount,
                                         !.days_overdue = fee.days_overdue,
                                         !.status = fee.status]
        /\ UNCHANGED <<books, ledger, now, calls>>

(* ----------------------- get_patron_status_report --------------------- *)
\* The rows of the patron joined with the catalog, in table order.
RECURSIVE SelectPatronRows(_, _, _)
SelectPatronRows(bks, ldg, patron_id) ==
    IF ldg = <<>> THEN <<>>
    ELSE IF Head(ldg).patron_id = patron_id /\ FoundBook(bks, Head(ldg).book_id)
        THEN <<Head(ldg)>> \o SelectPatronRows(bks, Tail(ldg), patron_id)
    ELSE SelectPatronRows(bks, Tail(ldg), patron_id)

\* ORDER BY borrow_date: the row with the least borrow_date first, rows with
\* equal dates in table order.
RECURSIVE OrderByBorrowDate(_)
OrderByBorrowDate(rows) ==
    IF rows = <<>> THEN <<>>
    ELSE LET k == CHOOSE i \in 1 .. Len(rows) :
                      \A j \in 1 .. Len(rows) :
                          \/ rows[i].borrow_date < rows[j].borrow_date
                          \/ rows[i].borrow_date = rows[j].borrow_date /\ i <= j
             rest == SubSeq(rows, 1, k - 1) \o SubSeq(rows, k + 1, Len(rows))
         IN  <<rows[k]>> \o OrderByBorrowDate(rest)

\* The fee of the report, in cents, for a number of days overdue.
ReportFee_SecondTierFromDayOne(days_overdue) ==
    IF days_overdue > 0
    THEN Min(IF days_overdue < FEE_FIRST_WEEK_DAYS
             THEN days_overdue * FEE_PER_DAY_FIRST_WEEK
             ELSE FEE_FIRST_WEEK_DAYS * FEE_PER_DAY_FIRST_WEEK
                  + (days_overdue - FEE_FIRST_WEEK_DAYS + 1) * FEE_PER_DAY_AFTER,
             MAX_LATE_FEE)
    ELSE 0

ReportFee(days_overdue) ==
    IF days_overdue > 0
    THEN Min(IF days_overdue <= FEE_FIRST_WEEK_DAYS
             THEN days_overdue * FEE_PER_DAY_FIRST_WEEK
             ELSE FEE_FIRST_WEEK_DAYS * FEE_PER_DAY_FIRST_WEEK
                  + (days_overdue - FEE_FIRST_WEEK_DAYS) * FEE_PER_DAY_AFTER,
             MAX_LATE_FEE)
    ELSE 0

\* One entry of borrowing_history for the row r at time t. A whole number of
\* cents is its own rounding to two decimals.
HistoryEntry_FeeFromNow(r, t) ==
    [book_id |-> r.book_id, borrow_date |-> r.borrow_date,
     due_date |-> r.due_date, return_date |-> r.return_date,
     fee_incurred |-> ReportFee(Max(0, t - r.due_date))]

HistoryEntry_ClosedIsFree(r, t) ==
    [book_id |-> r.book_id, borrow_date |-> r.borrow_date,
     due_date |-> r.due_date, return_date |-> r.return_date,
     fee_incurred |-> IF r.return_date # None THEN 0
                      ELSE ReportFee(Max(0, t - r.due_date))]

HistoryEntry(r, t) ==
    LET compare_date == IF r.return_date # None THEN r.return_date ELSE t
        days_overdue == Max(0, compare_date - r.due_date)
    IN  [book_id |-> r.book_id, borrow_date |-> r.borrow_date,
         due_date |-> r.due_date, return_date |-> r.return_date,
         fee_incurred |-> ReportFee(days_overdue)]

BorrowingHistory(bks, ldg, t, patron_id) ==
    LET rows == OrderByBorrowDate(SelectPatronRows(bks, ldg, patron_id))
    IN  [k \in 1 .. Len(rows) |-> HistoryEntry(rows[k], t)]

\* The running sum total_late_fees over the rows of the report.
RECURSIVE TotalLateFees_OpenOnly(_, _)
TotalLateFees_OpenOnly(rows, t) ==
    IF rows = <<>> THEN 0
    ELSE (IF IsOpen(Head(rows)) THEN HistoryEntry(Head(rows), t).fee_incurred ELSE 0)
         + TotalLateFees_OpenOnly(Tail(rows), t)

RECURSIVE TotalLateFees(_, _)
TotalLateFees(rows, t) ==
    IF rows = <<>> THEN 0
    ELSE HistoryEntry(Head(rows), t).fee_incurred + TotalLateFees(Tail(rows), t)

\* currently_borrowed: the open records of the patron, in table order.
RECURSIVE CurrentlyBorrowed(_, _)
CurrentlyBorrowed(ldg, patron_id) ==
    IF ldg = <<>> THEN <<>>
    ELSE IF Head(ldg).patron_id = patron_id /\ IsOpen(Head(ldg))
        THEN <<[book_id |-> Head(ldg).book_id, due_date |-> Head(ldg).due_date]>>
             \o CurrentlyBorrowed(Tail(ldg), patron_id)
    ELSE CurrentlyBorrowed(Tail(ldg), patron_id)

get_patron_status_report(patron_id) ==
    /\ result' =
         IF InvalidPatronId(patron_id)
         THEN [BlankResult EXCEPT !.op = "status", !.patron_id = patron_id,
                                  !.message = INVALID_PATRON]
         ELSE [BlankResult EXCEPT
                 !.op = "status", !.patron_id = patron_id, !.success = TRUE,
                 !.currently_borrowed = CurrentlyBorrowed(ledger, patron_id),
                 !.books_borrowed_count = get_patron_borrow_count(ledger, patron_id),
                 !.borrowing_history = BorrowingHistory(books, ledger, now, patron_id),
                 !.total_late_fees =
                     TotalLateFees(OrderByBorrowDate(
                         SelectPatronRows(books, ledger, patron_id)), now)]
    /\ UNCHANGED <<books, ledger, now, calls>>

(* ----------------------------- pay_late_fees -------------------------- *)
Payment(success, message, detail, transaction_id, gateway_calls, raised) ==
    [success |-> success, message |-> message, detail |-> detail,
     transaction_id |-> transaction_id, gateway_calls |-> gateway_calls,
     raised |-> raised]

\* The call of the gateway and what is made of its outcome; call is the
\* arguments of process_payment.
ProcessPayment_ExceptionEscapes(call, outcome) ==
    IF outcome.raises
    THEN Payment(FALSE, "", outcome.message, NO_TRANSACTION, <<call>>, TRUE)
    ELSE IF outcome.success
        THEN Payment(TRUE, "Payment successful! ", outcome.message,
                     outcome.transaction_id, <<call>>, FALSE)
    ELSE Payment(FALSE, "Payment failed: ", outcome.message, NO_TRANSACTION,
                 <<call>>, FALSE)

ProcessPayment_KeepsFailedId(call, outcome) ==
    IF outcome.raises
    THEN Payment(FALSE, "Payment processing error: ", outcome.message,
                 NO_TRANSACTION, <<call>>, FALSE)
    ELSE Payment(outcome.success,
                 IF outcome.success THEN "Payment successful! "
                                    ELSE "Payment failed: ",
                 outcome.message, outcome.transaction_id, <<call>>, FALSE)

ProcessPayment_Retries(call, outcome) ==
    IF outcome.raises
    THEN Payment(FALSE, "Payment processing error: ", outcome.message,
                 NO_TRANSACTION, <<call, call>>, FALSE)
    ELSE IF outcome.success
        THEN Payment(TRUE, "Payment successful! ", outcome.message,
                     outcome.transaction_id, <<call>>, FALSE)
    ELSE Payment(FALSE, "Payment failed: ", outcome.message, NO_TRANSACTION,
                 <<call, call>>, FALSE)

ProcessPayment(call, outcome) ==
    IF outcome.raises
    THEN Payment(FALSE, "Payment processing error: ", outcome.message,
                 NO_TRANSACTION, <<call>>, FALSE)
    ELSE IF outcome.success
        THEN Payment(TRUE, "Payment successful! ", outcome.message,
                     outcome.transaction_id, <<call>>, FALSE)
    ELSE Payment(FALSE, "Payment failed: ", outcome.message, NO_TRANSACTION,
                 <<call>>, FALSE)

NoPayment(message) == Payment(FALSE, message, "", NO_TRANSACTION, <<>>, FALSE)

\* The tuple returned for a fee quotation fee_info and a book lookup
\* (found, title); outcome is what the gateway does if it is called.
PayLateFees_ChargesAnyFee(fee_info, found, title, patron_id, outcome) ==
    IF fee_info = NoFeeInfo \/ "fee_amount" \notin DOMAIN fee_info
    THEN NoPayment("Unable to calculate late fees.")
    ELSE IF ~found THEN NoPayment("Book not found.")
    ELSE ProcessPayment([patron_id |-> patron_id,
                         amount |-> fee_info.fee_amount,
                         description |-> title], outcome)

PayLateFees_BookCheckFirst(fee_info, found, title, patron_id, outcome) ==
    IF fee_info = NoFeeInfo \/ "fee_amount" \notin DOMAIN fee_info
    THEN NoPayment("Unable to calculate late fees.")
    ELSE IF ~found THEN NoPayment("Book not found.")
    ELSE IF fee_info.fee_amount <= 0
        THEN NoPayment("No late fees to pay for this book.")
    ELSE ProcessPayment([patron_id |-> patron_id,
                         amount |-> fee_info.fee_amount,
                         description |-> title], outcome)

PayLateFees(fee_info, found, title, patron_id, outcome) ==
    IF fee_info = NoFeeInfo \/ "fee_amount" \notin DOMAIN fee_info
    THEN NoPayment("Unable to calculate late fees.")
    ELSE IF fee_info.fee_amount <= 0
        THEN NoPayment("No late fees to pay for this book.")
    ELSE IF ~found THEN NoPayment("Book not found.")
    ELSE ProcessPayment([patron_id |-> patron_id,
                         amount |-> fee_info.fee_amount,
                         description |-> title], outcome)

PayResult(patron_id, book_id, fee_info, stubbed, outcome, payment) ==
    [BlankResult EXCEPT
        !.op = "pay", !.patron_id = patron_id, !.book_id = book_id,
        !.quote = fee_info, !.stubbed = stubbed,
        !.success = payment.success, !.message = payment.message,
        !.detail = payment.detail, !.transaction_id = payment.transaction_id,
        !.gateway_calls = payment.gateway_calls,
        !.gateway_reply = IF payment.gateway_calls = <<>> THEN NoReply ELSE outcome,
        !.raised = payment.raised]

pay_late_fees(patron_id, book_id, outcome) ==
    LET fee_info == CalculateLateFee(books, ledger, now, patron_id, book_id)
        found == FoundBook(books, book_id)
        title == IF found THEN get_book_by_id(books, book_id).title ELSE NoArg
    IN  /\ result' = [PayResult(patron_id, book_id, fee_info, FALSE, outcome,
                                PayLateFees(fee_info, found, title, patron_id, outcome))
                          EXCEPT !.book_found = found]
        /\ UNCHANGED <<books, ledger, now, calls>>

\* pay_late_fees with calculate_late_fee_for_book and get_book_by_id replaced
\* by stubs that return fee_info and a book (found) or None.
pay_late_fees_stubbed(patron_id, book_id, fee_info, found, outcome) ==
    /\ result' = [PayResult(patron_id, book_id, fee_info, TRUE, outcome,
                            PayLateFees(fee_info, found, <<"T">>, patron_id, outcome))
                      EXCEPT !.book_found = found]
    /\ UNCHANGED <<books, ledger, now, calls>>

(* ------------------------ refund_late_fee_payment --------------------- *)
\* The pair returned and the calls of refund_payment made; a message passed
\* through has an empty prefix.
RefundPayment_Retries(transaction_id, amount, outcome) ==
    LET call == [transaction_id |-> transaction_id, amount |-> amount]
    IN  IF outcome.raises
        THEN Payment(FALSE, "Refund processing error: ", outcome.message,
                     NO_TRANSACTION, <<call, call>>, FALSE)
        ELSE IF outcome.success
            THEN Payment(TRUE, "", outcome.message, NO_TRANSACTION, <<call>>, FALSE)
        ELSE Payment(FALSE, "Refund failed: ", outcome.message, NO_TRANSACTION,
                     <<call, call>>, FALSE)

RefundPayment(transaction_id, amount, outcome) ==
    LET call == [transaction_id |-> transaction_id, amount |-> amount]
    IN  IF outcome.raises
        THEN Payment(FALSE, "Refund processing error: ", outcome.message,
                     NO_TRANSACTION, <<call>>, FALSE)
        ELSE IF outcome.success
            THEN Payment(TRUE, "", outcome.message, NO_TRANSACTION, <<call>>, FALSE)
        ELSE Payment(FALSE, "Refund failed: ", outcome.message, NO_TRANSACTION,
                     <<call>>, FALSE)

refund_late_fee_payment(transaction_id, amount, outcome) ==
    LET refund == RefundPayment(transaction_id, amount, outcome)
    IN  /\ result' = [BlankResult EXCEPT
                        !.op = "refund", !.transaction_id = transaction_id,
                        !.amount = amount, !.success = refund.success,
                        !.message = refund.message, !.detail = refund.detail,
                        !.gateway_calls = refund.gateway_calls,
                        !.gateway_reply = outcome, !.raised = refund.raised]
        /\ UNCHANGED <<books, ledger, now, calls>>

(* ------------------------ search_books_in_catalog --------------------- *)
\* The rows of ids, in order, whose field contains term.
RECURSIVE MatchingBooks(_, _, _, _)
MatchingBooks(bks, ids, field, term_lower) ==
    IF ids = <<>> THEN <<>>
    ELSE LET book == bks[Head(ids)]
             value == lower(IF field = "title" THEN book.title ELSE book.author)
             rest == MatchingBooks(bks, Tail(ids), field, term_lower)
         IN  IF In(term_lower, value) THEN <<Head(ids)>> \o rest ELSE rest

\* The list returned, as the ids of the books in it.
SearchBooks(bks, search_term, search_type) ==
    IF ~search_term.truthy \/ ~search_term.is_str THEN <<>>
    ELSE IF ~search_type.truthy \/ ~search_type.is_str THEN <<>>
    ELSE LET term == strip(search_term.chars)
             type == lower(strip(search_type.chars))
         IN  IF type \notin {TYPE_TITLE.chars, TYPE_AUTHOR.chars, lower(TYPE_ISBN.chars)}
             THEN <<>>
             ELSE IF type = lower(TYPE_ISBN.chars)
                 THEN LET ids == get_book_by_isbn(bks, term)
                      IN  IF ids # {} THEN <<CHOOSE i \in ids : TRUE>> ELSE <<>>
             ELSE MatchingBooks(bks, get_all_books(bks),
                                IF type = TYPE_TITLE.chars THEN "title" ELSE "author",
                                lower(term))

search_books_in_catalog(search_term, search_type) ==
    /\ result' = [BlankResult EXCEPT
                    !.op = "search", !.search_term = search_term,
                    !.search_type = search_type,
                    !.results = SearchBooks(books, search_term, search_type)]
    /\ UNCHANGED <<books, ledger, now, calls>>

(* ------------------------------- clock --------------------------------- *)
\* A day passes between two calls.
Tick(max_now) ==
    /\ now < max_now
    /\ now' = now + 1
    /\ result' = NoResult
    /\ UNCHANGED <<books, ledger, calls>>

\* Several days pass between two calls.
TickBy(steps, max_now) ==
    \E days \in steps :
        /\ now + days <= max_now
        /\ now' = now + days
        /\ result' = NoResult
        /\ UNCHANGED <<books, ledger, calls>>

(* ---------------------------- specifications --------------------------- *)
Init ==
    /\ books = <<>>
    /\ ledger = <<>>
    /\ now = 0
    /\ result = NoResult
    /\ calls = [c \in Callers |-> IdleCall]

\* One call of each operation, its arguments drawn from the given sets, the
\* store calls succeeding; borrow_records is kept within max_records rows.
AddBook(titles, authors, isbns, copies) ==
    \E title \in titles, author \in authors, isbn \in isbns, total_copies \in copies :
        add_book_to_catalog(title, author, isbn, total_copies, TRUE)

Borrow(patrons, book_ids, max_records) ==
    \E patron_id \in patrons, book_id \in book_ids :
        /\ borrow_book_by_patron(patron_id, book_id, TRUE, TRUE)
        /\ Len(ledger') <= max_records

Return(patrons, book_ids) ==
    \E patron_id \in patrons, book_id \in book_ids :
        return_book_by_patron(patron_id, book_id, TRUE, TRUE)

ValidPatrons == {PATRON_1, PATRON_2}
ValidIsbns == {ISBN_1, ISBN_2}

\* Spec: add, borrow and return with well-formed and malformed arguments.
Next ==
    \/ AddBook({TITLE_PADDED}, {AUTHOR_PLAIN}, IsbnInputs, CopyInputs)
    \/ Borrow(PatronInputs, BookIdInputs, MaxRecords)
    \/ Return(PatronInputs, BookIdInputs)

Spec == Init /\ [][Next]_vars

\* SpecClock: well-formed calls of two patrons, with days passing.
NextClock ==
    \/ AddBook({TITLE_PADDED}, {AUTHOR_PLAIN}, ValidIsbns, {ClockCopies})
    \/ Borrow(ValidPatrons, {1, 2}, ClockMaxRecords)
    \/ Return(ValidPatrons, {1, 2})
    \/ Tick(MaxNow)

SpecClock == Init /\ [][NextClock]_vars

\* SpecLimit: one patron borrowing up to the limit of MAX_BORROW books, and
\* calls with a malformed patron id or an unknown book id.
NextLimit ==
    \/ AddBook({TITLE_PADDED}, {AUTHOR_PLAIN}, ValidIsbns, {LimitCopies})
    \/ Borrow({PATRON_1, PATRON_ALPHA}, BookIdInputs, LimitMaxRecords)
    \/ Return({PATRON_1, PATRON_ALPHA}, BookIdInputs)

SpecLimit == Init /\ [][NextLimit]_vars

\* SpecAdd: add_book_to_catalog alone, over every class of argument.
NextAdd ==
    AddBook(TitleInputs, AuthorInputs, AddIsbnInputs, AddCopyInputs)

SpecAdd == Init /\ [][NextAdd]_vars

\* The fee quotation: one copy lent to PATRON_1 on day 0, looked at on any
\* later day.
LoanFixture(isbn, patron_id) ==
    /\ books = insert_book(<<>>, <<"A", " ", "b">>, AUTHOR_PLAIN, isbn, 1, 0)
    /\ ledger = insert_borrow_record(<<>>, patron_id, 1, 0, LOAN_DAYS)

InitFee ==
    /\ LoanFixture(ISBN_1, PATRON_1)
    /\ now \in 0 .. MaxFeeNow
    /\ result = NoResult
    /\ calls = [c \in Callers |-> IdleCall]

CalculateFee(patrons, book_ids) ==
    \E patron_id \in patrons, book_id \in book_ids :
        calculate_late_fee_for_book(patron_id, book_id)

NextFee ==
    \/ CalculateFee(PatronInputs, {1, 2})
    \/ Borrow(ValidPatrons, {1}, FeeMaxRecords)
    \/ Return(ValidPatrons, {1})

SpecFee == InitFee /\ [][NextFee]_vars

\* The report over loans that run late: one title, calls 5 or 14 days apart.
DaySteps == {5, LOAN_DAYS}

StatusReport(patrons) ==
    \E patron_id \in patrons : get_patron_status_report(patron_id)

NextHistory ==
    \/ AddBook({TITLE_PADDED}, {AUTHOR_PLAIN}, {ISBN_1}, {HistoryCopies})
    \/ Borrow(ValidPatrons, {1}, HistoryMaxRecords)
    \/ Return(ValidPatrons, {1})
    \/ TickBy(DaySteps, MaxHistoryNow)
    \/ StatusReport({PATRON_1, PATRON_SHORT})

SpecHistory == Init /\ [][NextHistory]_vars

\* The payment of the fee of a running loan, with the gateway doing any of
\* the things a gateway does.
Pay(patrons, book_ids) ==
    \E patron_id \in patrons, book_id \in book_ids, outcome \in GatewayOutcomes :
        pay_late_fees(patron_id, book_id, outcome)

PayStubbed(patrons, book_ids) ==
    \E patron_id \in patrons, book_id \in book_ids, fee_info \in FeeInfoInputs,
       found \in BOOLEAN, outcome \in GatewayOutcomes :
        pay_late_fees_stubbed(patron_id, book_id, fee_info, found, outcome)

NextPay ==
    \/ Pay({PATRON_1, PATRON_2, PATRON_SHORT}, {1, 2})
    \/ PayStubbed({PATRON_1}, {1})
    \/ Return({PATRON_1}, {1})

SpecPay == InitFee /\ [][NextPay]_vars

\* Refunds, after payments or without any.
Refund(transaction_ids, amounts) ==
    \E transaction_id \in transaction_ids, amount \in amounts,
       outcome \in RefundOutcomes :
        refund_late_fee_payment(transaction_id, amount, outcome)

NextRefund ==
    \/ Pay({PATRON_1}, {1})
    \/ Refund(RefundIdInputs, RefundAmountInputs)
    \/ Return({PATRON_1}, {1})

SpecRefund == InitFee /\ [][NextRefund]_vars

\* Searches of a catalog of up to two titles.
Search(terms, types) ==
    \E search_term \in terms, search_type \in types :
        search_books_in_catalog(search_term, search_type)

NextSearch ==
    \/ AddBook(SearchTitleInputs, {AUTHOR_PLAIN}, ValidIsbns, {1})
    \/ Search(TermInputs, TypeInputs)

SpecSearch == Init /\ [][NextSearch]_vars

\* Borrowing from a store whose writes can fail.
BorrowWithStore(patrons, book_ids, max_records) ==
    \E patron_id \in patrons, book_id \in book_ids, insert_ok, update_ok \in BOOLEAN :
        /\ borrow_book_by_patron(patron_id, book_id, insert_ok, update_ok)
        /\ Len(ledger') <= max_records

NextFailure ==
    \/ AddBook({TITLE_PADDED}, {AUTHOR_PLAIN}, {ISBN_1}, {FailureCopies})
    \/ BorrowWithStore(ValidPatrons, {1, 2}, FailureMaxRecords)
    \/ Return(ValidPatrons, {1, 2})

SpecFailure == Init /\ [][NextFailure]_vars

\* Two borrow calls, one per caller, whose store calls interleave.
BorrowStep(book_ids) ==
    \E c \in Callers :
        \/ \E book_id \in book_ids : BorrowStart(c, book_id)
        \/ BorrowGetBook(c)
        \/ BorrowCount(c)
        \/ BorrowInsert(c)
        \/ BorrowUpdate(c)

NextRace ==
    \/ AddBook({TITLE_PADDED}, {AUTHOR_PLAIN}, {ISBN_1}, 1 .. RaceCopies)
    \/ BorrowStep({1, 2})

SpecRace == Init /\ [][NextRace]_vars

\* The quotation and the report side by side, on the loan of InitFee.
NextAgree ==
    \/ CalculateFee(ValidPatrons, {1})
    \/ StatusReport(ValidPatrons)
    \/ Borrow(ValidPatrons, {1}, FeeMaxRecords)
    \/ Return(ValidPatrons, {1})

SpecAgree == InitFee /\ [][NextAgree]_vars

\* The queries and the payments among borrows and returns.
NextReadOnly ==
    \/ Search({TERM_A, TERM_BLANK}, {TYPE_TITLE, TYPE_ISBN})
    \/ CalculateFee({PATRON_1, PATRON_SHORT}, {1, 2})
    \/ StatusReport({PATRON_1, PATRON_SHORT})
    \/ Pay({PATRON_1}, {1})
    \/ Refund({"txn_abc123"}, {MAX_LATE_FEE})
    \/ Borrow(ValidPatrons, {1}, FeeMaxRecords)
    \/ Return(ValidPatrons, {1})

SpecReadOnly == InitFee /\ [][NextReadOnly]_vars

\* A patron who returns late, then asks for the report, the quotation and the
\* payment on later days.
NextLate ==
    \/ AddBook({TITLE_PADDED}, {AUTHOR_PLAIN}, {ISBN_1}, {HistoryCopies})
    \/ Borrow({PATRON_1}, {1}, HistoryMaxRecords)
    \/ Return({PATRON_1}, {1})
    \/ TickBy(DaySteps, MaxHistoryNow)
    \/ StatusReport({PATRON_1})
    \/ CalculateFee({PATRON_1}, {1})
    \/ Pay({PATRON_1}, {1})

SpecLate == Init /\ [][NextLate]_vars

(* =============================== claims ================================ *)
OpenCount(ldg, book_id) ==
    Cardinality({i \in 1 .. Len(ldg) : ldg[i].book_id = book_id /\ IsOpen(ldg[i])})

Called(op) == result'.op = op
Succeeded == result'.success

(* ------------------------------------------------------------------------ *)
\* C1: in every state reachable by add, borrow and return calls, every book
\* has 0 <= available_copies <= total_copies.
C1_AvailabilityInRange ==
    \A b \in 1 .. Len(books) :
        /\ 0 <= books[b].available_copies
        /\ books[b].available_copies <= books[b].total_copies

\* a successful borrow took the last copy of a book
C1_Witness ==
    /\ result.op = "borrow" /\ result.success
    /\ books[result.book_id].available_copies = 0
    /\ books[result.book_id].total_copies = MaxCopies

(* ------------------------------------------------------------------------ *)
\* C2: for every book, available_copies plus the number of open borrow
\* records for that book equals total_copies.
C2_AvailabilityInSync ==
    \A b \in 1 .. Len(books) :
        books[b].available_copies + OpenCount(ledger, b) = books[b].total_copies

(* ------------------------------------------------------------------------ *)
\* C3: no patron ever has more than 5 open borrow records, and a borrow call
\* by a patron who has 5 open records, for a book that exists and has an
\* available copy, fails with the 'maximum borrowing limit' message.
C3_BorrowLimit ==
    [][ /\ \A p \in PatronInputs : get_patron_borrow_count(ledger', p) <= 5
        /\ ( /\ Called("borrow")
             /\ get_patron_borrow_count(ledger, result'.patron_id) = 5
             /\ FoundBook(books, result'.book_id)
             /\ books[result'.book_id].available_copies > 0 )
           => ( /\ ~Succeeded
                /\ result'.message = LIMIT_REACHED
                /\ UNCHANGED <<books, ledger>> )
      ]_vars

\* the sixth borrow of a patron, for a book with a copy on the shelf, failed
C3_Witness ==
    /\ result.op = "borrow" /\ ~result.success
    /\ result.message = LIMIT_REACHED
    /\ get_patron_borrow_count(ledger, result.patron_id) = 5
    /\ books[result.book_id].available_copies > 0

(* ------------------------------------------------------------------------ *)
\* C4: a patron holds at most one open borrow record per book at any time
\* (a second borrow of a book the patron already holds is refused).
C4_OneOpenRecordPerBook ==
    \A p \in PatronInputs, b \in BookIdInputs :
        Cardinality(BorrowRecordsFor(ledger, p, b)) <= 1

(* ------------------------------------------------------------------------ *)
\* C5: a successful borrow(p, b) decrements available_copies of b by exactly
\* 1, appends exactly one open record for (p, b) with borrow_date = now and
\* due_date = borrow_date + 14, and changes no other book and no other record.
C5_BorrowEffect ==
    [][ (Called("borrow") /\ Succeeded) =>
          LET p == result'.patron_id
              b == result'.book_id
              n == Len(ledger)
          IN  /\ Len(ledger') = n + 1
              /\ \A i \in 1 .. n : ledger'[i] = ledger[i]
              /\ ledger'[n + 1].patron_id = p
              /\ ledger'[n + 1].book_id = b
              /\ ledger'[n + 1].return_date = None
              /\ ledger'[n + 1].borrow_date = now
              /\ ledger'[n + 1].due_date = ledger'[n + 1].borrow_date + 14
              /\ Len(books') = Len(books)
              /\ books'[b].available_copies = books[b].available_copies - 1
              /\ books'[b].total_copies = books[b].total_copies
              /\ \A c \in 1 .. Len(books) : c # b => books'[c] = books[c]
      ]_vars

\* a borrow on a later day, with another book and another record present
C5_Witness ==
    /\ result.op = "borrow" /\ result.success
    /\ now > 0
    /\ Len(books) = 2
    /\ Len(ledger) = 2
    /\ ledger[2].borrow_date = now
    /\ ledger[2].due_date = now + 14
    /\ ledger[1].book_id # ledger[2].book_id

(* ------------------------------------------------------------------------ *)
\* C6: from any reachable state, if borrow(p, b) succeeds and return(p, b)
\* follows at once, the return succeeds, and every book's available_copies
\* and every patron's set of open records are as before the borrow.
OpenRecords(ldg, patron_id) ==
    {<<i, ldg[i]>> : i \in get_patron_borrowed_books(ldg, patron_id)}

C6_BorrowReturnInverse ==
    \A p \in PatronInputs, b \in BookIdInputs :
        BorrowMessage(books, ledger, p, b, TRUE, TRUE) = BORROWED =>
            LET ledger1 == BorrowLedger(books, ledger, now, p, b, TRUE, TRUE)
                books1 == BorrowBooks(books, ledger, p, b, TRUE, TRUE)
                ledger2 == ReturnLedger(books1, ledger1, now, p, b, TRUE, TRUE)
                books2 == ReturnBooks(books1, ledger1, p, b, TRUE, TRUE)
            IN  /\ ReturnMessage(books1, ledger1, p, b, TRUE, TRUE) = RETURNED
                /\ \A c \in 1 .. Len(books) :
                       books2[c].available_copies = books[c].available_copies
                /\ \A q \in PatronInputs :
                       OpenRecords(ledger2, q) = OpenRecords(ledger, q)

(* ------------------------------------------------------------------------ *)
\* C7 as stated: return(p, b) for an existing book b fails with 'not borrowed
\* by the patron' exactly when p has no open record for b, whatever p is; it
\* then changes nothing; a second return right after a successful one fails.
C7_ReturnNotBorrowed_AnyPatronId ==
    [][ (Called("return") /\ FoundBook(books, result'.book_id)) =>
          LET p == result'.patron_id
              b == result'.book_id
          IN  /\ (result'.message = NOT_BORROWED)
                     <=> (BorrowRecordsFor(ledger, p, b) = {})
              /\ BorrowRecordsFor(ledger, p, b) = {}
                     => (~Succeeded /\ UNCHANGED <<books, ledger>>)
              /\ ( /\ result.op = "return" /\ result.success
                   /\ result.patron_id = p /\ result.book_id = b )
                     => (~Succeeded /\ result'.message = NOT_BORROWED)
      ]_vars

\* C7 amended: the same for a well-formed (6-digit) patron id p.
C7_ReturnNotBorrowed ==
    [][ ( /\ Called("return")
          /\ ~InvalidPatronId(result'.patron_id)
          /\ FoundBook(books, result'.book_id) ) =>
          LET p == result'.patron_id
              b == result'.book_id
          IN  /\ (result'.message = NOT_BORROWED)
                     <=> (BorrowRecordsFor(ledger, p, b) = {})
              /\ BorrowRecordsFor(ledger, p, b) = {}
                     => (~Succeeded /\ UNCHANGED <<books, ledger>>)
              /\ ( /\ result.op = "return" /\ result.success
                   /\ result.patron_id = p /\ result.book_id = b )
                     => (~Succeeded /\ result'.message = NOT_BORROWED)
      ]_vars

\* a return of a book the patron had already returned, and that another
\* patron holds, failed
C7_Witness ==
    /\ result.op = "return" /\ ~result.success
    /\ result.message = NOT_BORROWED
    /\ \E i \in 1 .. Len(ledger) :
           /\ ledger[i].patron_id = result.patron_id
           /\ ledger[i].book_id = result.book_id
           /\ ~IsOpen(ledger[i])
    /\ \E i \in 1 .. Len(ledger) :
           /\ ledger[i].patron_id # result.patron_id
           /\ ledger[i].book_id = result.book_id
           /\ IsOpen(ledger[i])

(* ------------------------------------------------------------------------ *)
\* C8: a borrow call that fails because the patron id is malformed, the book
\* is unknown, no copy is available or the patron is at the limit leaves the
\* catalog and the borrow ledger as they were.
C8_FailedBorrowNoMutation ==
    [][ ( /\ Called("borrow")
          /\ result'.message \in
                 {INVALID_PATRON, BOOK_NOT_FOUND, NOT_AVAILABLE, LIMIT_REACHED} )
          => (~Succeeded /\ UNCHANGED <<books, ledger>>)
      ]_vars

\* a borrow of a book whose copies are all out failed
C8_Witness ==
    /\ result.op = "borrow" /\ ~result.success
    /\ result.message = NOT_AVAILABLE
    /\ OpenCount(ledger, result.book_id) = books[result.book_id].total_copies

(* ------------------------------------------------------------------------ *)
\* C9: borrow records are append-only with a one-way lifecycle: a record is
\* created open, and only by a successful borrow; an open record is closed
\* only by a successful return of its patron and book; a closed record never
\* changes again; no record is removed or otherwise altered.
C9_RecordLifecycle ==
    [][ /\ Len(ledger') >= Len(ledger)
        /\ Len(ledger') > Len(ledger) =>
               /\ Called("borrow") /\ Succeeded
               /\ Len(ledger') = Len(ledger) + 1
               /\ IsOpen(ledger'[Len(ledger')])
        /\ \A i \in 1 .. Len(ledger) :
               /\ i <= Len(ledger')
               /\ ~IsOpen(ledger[i]) => ledger'[i] = ledger[i]
               /\ IsOpen(ledger[i]) =>
                      \/ ledger'[i] = ledger[i]
                      \/ /\ Called("return") /\ Succeeded
                         /\ result'.patron_id = ledger[i].patron_id
                         /\ result'.book_id = ledger[i].book_id
                         /\ ledger'[i] = [ledger[i] EXCEPT !.return_date = now]
      ]_vars

\* a return on a later day than an earlier, already closed record
C9_Witness ==
    /\ result.op = "return" /\ result.success
    /\ Len(ledger) = 2
    /\ \E i, j \in 1 .. 2 :
           /\ ledger[i].return_date # None
           /\ ledger[i].return_date < now
           /\ ledger[j].return_date = now

(* ------------------------------------------------------------------------ *)
\* C10: a successful add(title, author, isbn, n) has n >= 1 and appends one
\* book with available_copies = total_copies = n; an add with n <= 0 fails and
\* leaves the catalog as it was.
C10_AddCopies ==
    [][ Called("add") =>
          LET n == result'.total_copies
          IN  /\ Succeeded =>
                     /\ n >= 1
                     /\ Len(books') = Len(books) + 1
                     /\ \A i \in 1 .. Len(books) : books'[i] = books[i]
                     /\ books'[Len(books')].total_copies = n
                     /\ books'[Len(books')].available_copies = n
                     /\ books'[Len(books')].isbn = result'.isbn
              /\ n <= 0 => (~Succeeded /\ books' = books)
      ]_vars

\* two books were added, the second with the largest number of copies
C10_Witness ==
    /\ result.op = "add" /\ result.success
    /\ Len(books) = 2
    /\ books[2].total_copies = MaxCopies
    /\ books[2].available_copies = MaxCopies

(* ------------------------------------------------------------------------ *)
\* C11 as stated: no two stored books share an ISBN, and every add whose
\* ISBN is already in the catalog fails with 'already exists' and leaves the
\* catalog unchanged.
UniqueIsbns(bks) ==
    \A i, j \in 1 .. Len(bks) : bks[i].isbn = bks[j].isbn => i = j

C11_UniqueIsbn_AnyArguments ==
    [][ /\ UniqueIsbns(books')
        /\ (Called("add") /\ get_book_by_isbn(books, result'.isbn) # {}) =>
               /\ ~Succeeded
               /\ result'.message = "A book with this ISBN already exists."
               /\ books' = books
      ]_vars

\* C11 amended: no two stored books share an ISBN; every add whose ISBN is
\* already in the catalog fails and leaves the catalog unchanged, and it
\* fails with 'already exists' when its title, author and number of copies
\* pass their checks.
C11_UniqueIsbn ==
    [][ /\ UniqueIsbns(books')
        /\ (Called("add") /\ get_book_by_isbn(books, result'.isbn) # {}) =>
               /\ ~Succeeded
               /\ books' = books
               /\ ( /\ strip(result'.title) # <<>>
                    /\ Len(strip(result'.title)) <= MAX_TITLE_LEN
                    /\ strip(result'.author) # <<>>
                    /\ Len(strip(result'.author)) <= MAX_AUTHOR_LEN
                    /\ result'.total_copies >= 1 )
                  => result'.message = "A book with this ISBN already exists."
      ]_vars

\* an add with an ISBN of the catalog, and other copy counts, was refused
C11_Witness ==
    /\ result.op = "add" /\ ~result.success
    /\ result.message = "A book with this ISBN already exists."
    /\ \E b \in 1 .. Len(books) :
           /\ books[b].isbn = result.isbn
           /\ books[b].total_copies # result.total_copies
    /\ Len(books) >= 2

(* ------------------------------------------------------------------------ *)
\* C12: every book stored in the catalog has an ISBN of exactly 13 numeric
\* characters.
C12_IsbnThirteenDigits ==
    \A b \in 1 .. Len(books) :
        Len(books[b].isbn) = 13 /\ isdigit(books[b].isbn)

(* ------------------------------------------------------------------------ *)
\* C13: the fee quoted for an overdue loan is a function of the whole days
\* overdue d: 0.50 a day for 1 <= d <= 7, 3.50 plus 1.00 a day beyond the
\* seventh for d > 7, never more than 15.00 (0.50 at 1, 3.50 at 7, 4.50 at 8,
\* 14.50 at 18, 15.00 from 19 on); it lies in [0, 15.00] and never decreases
\* as d grows. Amounts are in cents.
C13_Fee(d) ==
    IF d = 0 THEN 0
    ELSE IF d <= 7 THEN 50 * d
    ELSE IF d <= 18 THEN 350 + 100 * (d - 7)
    ELSE 1500

C13_FeeSchedule ==
    /\ (result.op = "late_fee" /\ result.status = "overdue") =>
           /\ result.days_overdue = now - LOAN_DAYS
           /\ result.fee_amount = C13_Fee(result.days_overdue)
           /\ result.fee_amount >= 0 /\ result.fee_amount <= 1500
           /\ (result.days_overdue = 1 => result.fee_amount = 50)
           /\ (result.days_overdue = 7 => result.fee_amount = 350)
           /\ (result.days_overdue = 8 => result.fee_amount = 450)
           /\ (result.days_overdue = 18 => result.fee_amount = 1450)
           /\ (result.days_overdue >= 19 => result.fee_amount = 1500)
    /\ \A d \in 0 .. MaxFeeNow :
           /\ LateFeeAmount(d) = C13_Fee(d)
           /\ LateFeeAmount(d) <= LateFeeAmount(d + 1)
    /\ LateFeeAmount(0) = 0

\* a quotation at the cap, beyond the day where it is first reached
C13_Witness ==
    /\ result.op = "late_fee" /\ result.status = "overdue"
    /\ result.days_overdue >= 20 /\ result.fee_amount = 1500

(* ------------------------------------------------------------------------ *)
\* C14: calculate_late_fee_for_book(p, b) returns fee 0 and 0 days overdue
\* with status 'invalid patron ID' when p is not exactly 6 digits, else
\* 'invalid book ID' when b is not in the catalog, else 'no borrow record'
\* when p has no open record for b (also after p returned b), else 'on time'
\* when the open loan is not past its due date.
C14_Open(p, b) ==
    {i \in 1 .. Len(ledger) :
        /\ ledger[i].patron_id = p /\ ledger[i].book_id = b
        /\ ledger[i].return_date = None}

C14_NoFeeStatus(status) ==
    /\ result'.status = status
    /\ result'.fee_amount = 0
    /\ result'.days_overdue = 0

C14_FeeStatuses ==
    [][ Called("late_fee") =>
          LET p == result'.patron_id
              b == result'.book_id
          IN  IF ~(Len(p) = 6 /\ \A k \in 1 .. Len(p) : p[k] \in Digits)
              THEN C14_NoFeeStatus("invalid patron ID")
              ELSE IF b \notin 1 .. Len(books)
              THEN C14_NoFeeStatus("invalid book ID")
              ELSE IF C14_Open(p, b) = {}
              THEN C14_NoFeeStatus("no borrow record")
              ELSE (\A i \in C14_Open(p, b) : now <= ledger[i].due_date)
                   => C14_NoFeeStatus("on time")
      ]_vars

\* a quotation for a loan that was returned after its due date
C14_Witness ==
    /\ result.op = "late_fee" /\ result.status = "no borrow record"
    /\ \E i \in 1 .. Len(ledger) :
           /\ ledger[i].patron_id = result.patron_id
           /\ ledger[i].book_id = result.book_id
           /\ ledger[i].return_date # None
           /\ ledger[i].return_date > ledger[i].due_date

(* ------------------------------------------------------------------------ *)
\* C15: for a valid patron the report's total_late_fees is the sum of the
\* fee_incurred of all entries of its borrowing_history (2.50 for a single
\* open loan 5 days overdue, 6.50 for one open loan 10 days overdue among
\* loans that are on time), and 0.00 when the patron has no records.
RECURSIVE C15_SumOfFees(_)
C15_SumOfFees(history) ==
    IF history = <<>> THEN 0
    ELSE Head(history).fee_incurred + C15_SumOfFees(Tail(history))

C15_RecordsOf(patron_id) ==
    {i \in 1 .. Len(ledger) : ledger[i].patron_id = patron_id}

C15_OnTime(i) ==
    IF ledger[i].return_date = None
    THEN now <= ledger[i].due_date
    ELSE ledger[i].return_date <= ledger[i].due_date

C15_TotalIsSumOfFees ==
    [][ (Called("status") /\ Succeeded) =>
          LET mine == C15_RecordsOf(result'.patron_id)
              history == result'.borrowing_history
              total == result'.total_late_fees
          IN  /\ total = C15_SumOfFees(history)
              /\ (mine = {} => total = 0)
              /\ \A i \in mine :
                    (/\ ledger[i].return_date = None
                     /\ \A j \in mine \ {i} : C15_OnTime(j))
                    => /\ (now - ledger[i].due_date = 5 => total = 250)
                       /\ (now - ledger[i].due_date = 10 => total = 650)
                       /\ (mine = {i} /\ now - ledger[i].due_date = 5
                              => history[1].fee_incurred = 250)
      ]_vars

\* a report with one loan 10 days overdue and another loan on time
C15_Witness ==
    /\ result.op = "status" /\ result.success
    /\ result.total_late_fees = 650
    /\ Len(result.borrowing_history) = 2
    /\ \E k \in 1 .. 2 : result.borrowing_history[k].fee_incurred = 0

(* ------------------------------------------------------------------------ *)
\* C16: borrowing_history has exactly one entry for every borrow record the
\* patron ever created, open or closed, in ascending borrow_date order; the
\* fee of a closed record is computed from its return_date (it no longer
\* changes as time advances, and is 0.00 for a loan returned on or before its
\* due date), the fee of an open record from the current instant.
C16_Expected(i) ==
    LET r == ledger[i]
        compare == IF r.return_date # None THEN r.return_date ELSE now
        late == IF compare > r.due_date THEN compare - r.due_date ELSE 0
    IN  [book_id |-> r.book_id, borrow_date |-> r.borrow_date,
         due_date |-> r.due_date, return_date |-> r.return_date,
         fee_incurred |-> C13_Fee(late)]

C16_HistoryComplete ==
    [][ (Called("status") /\ Succeeded) =>
          LET mine == C15_RecordsOf(result'.patron_id)
              history == result'.borrowing_history
              entries == {history[k] : k \in 1 .. Len(history)}
                             \cup {C16_Expected(i) : i \in mine}
          IN  /\ Len(history) = Cardinality(mine)
              /\ \A e \in entries :
                     Cardinality({k \in 1 .. Len(history) : history[k] = e})
                         = Cardinality({i \in mine : C16_Expected(i) = e})
              /\ \A k \in 1 .. Len(history) - 1 :
                     history[k].borrow_date <= history[k + 1].borrow_date
              /\ \A k \in 1 .. Len(history) :
                     (/\ history[k].return_date # None
                      /\ history[k].return_date <= history[k].due_date)
                     => history[k].fee_incurred = 0
      ]_vars

\* a report made days after a late return, while another patron has a record
\* too: the closed entry keeps the fee of its return day
C16_Witness ==
    /\ result.op = "status" /\ result.success
    /\ Len(result.borrowing_history) = 1
    /\ LET e == result.borrowing_history[1]
       IN  /\ e.return_date # None
           /\ e.return_date > e.due_date
           /\ now > e.return_date
           /\ e.fee_incurred = C13_Fee(e.return_date - e.due_date)
           /\ e.fee_incurred # C13_Fee(now - e.due_date)
    /\ \E i \in 1 .. Len(ledger) : ledger[i].patron_id # result.patron_id

(* ------------------------------------------------------------------------ *)
\* C17: whenever the computed fee_amount is zero or negative, pay_late_fees
\* fails with (False, 'No late fees to pay for this book.', None) and never
\* invokes the payment gateway.
C17_NoFeeNoPayment ==
    [][ (/\ Called("pay")
         /\ "fee_amount" \in DOMAIN result'.quote
         /\ result'.quote.fee_amount <= 0)
        => /\ ~Succeeded
           /\ result'.message = "No late fees to pay for this book."
           /\ result'.detail = ""
           /\ result'.transaction_id = NO_TRANSACTION
           /\ result'.gateway_calls = <<>>
      ]_vars

\* a payment refused for a negative fee
C17_Witness ==
    /\ result.op = "pay"
    /\ "fee_amount" \in DOMAIN result.quote
    /\ result.quote.fee_amount < 0
    /\ result.message = "No late fees to pay for this book."

(* ------------------------------------------------------------------------ *)
\* C18: when the gateway's process_payment raises, pay_late_fees returns
\* (False, 'Payment processing error: <exception text>', None); the exception
\* does not reach the caller.
C18_GatewayExceptionCaught ==
    [][ (/\ Called("pay")
         /\ result'.gateway_calls # <<>>
         /\ result'.gateway_reply.raises)
        => /\ ~result'.raised
           /\ ~Succeeded
           /\ result'.message = "Payment processing error: "
           /\ result'.detail = result'.gateway_reply.message
           /\ result'.transaction_id = NO_TRANSACTION
      ]_vars

\* a payment of a real overdue fee whose gateway raised
C18_Witness ==
    /\ result.op = "pay" /\ ~result.stubbed
    /\ result.gateway_calls # <<>>
    /\ result.gateway_reply.raises
    /\ result.detail = "Network timeout"

C20_OpenLoan(p, b) ==
    {i \in 1 .. Len(ledger) :
        /\ ledger[i].patron_id = p /\ ledger[i].book_id = b
        /\ ledger[i].return_date = None}

C20_SingleGatewayCall ==
    [][ Called("pay") =>
          LET made == result'.gateway_calls
          IN  /\ Len(made) <= 1
              /\ Len(made) = 1 =>
                     /\ made[1].patron_id = result'.patron_id
                     /\ made[1].amount = result'.quote.fee_amount
                     /\ ~result'.stubbed =>
                            \E i \in C20_OpenLoan(result'.patron_id, result'.book_id) :
                                made[1].amount = C13_Fee(now - ledger[i].due_date)
      ]_vars

\* a payment of a real overdue fee below the cap, refused by the gateway after
\* one call
C20_Witness ==
    /\ result.op = "pay" /\ ~result.stubbed /\ ~result.success
    /\ Len(result.gateway_calls) = 1
    /\ ~result.gateway_reply.raises
    /\ result.gateway_calls[1].amount = 250
    /\ result.gateway_calls[1].patron_id = PATRON_1

(* ------------------------------------------------------------------------ *)
\* C21: refund_late_fee_payment(transaction_id, amount) invokes the gateway's
\* refund_payment exactly once, with the same transaction id and amount, and
\* returns (True, gateway message unchanged) on success, (False, 'Refund
\* failed: <message>') on a business failure and (False, 'Refund processing
\* error: <exception text>') when the gateway raises, which never reaches
\* the caller.
C21_RefundMapping ==
    [][ Called("refund") =>
          LET reply == result'.gateway_reply
              made == result'.gateway_calls
          IN  /\ Len(made) = 1
              /\ made[1].transaction_id = result'.transaction_id
              /\ made[1].amount = result'.amount
              /\ ~result'.raised
              /\ result'.detail = reply.message
              /\ result'.success = (~reply.raises /\ reply.success)
              /\ result'.message =
                     IF reply.raises THEN "Refund processing error: "
                     ELSE IF reply.success THEN ""
                     ELSE "Refund failed: "
      ]_vars

\* a refund whose gateway raised
C21_Witness ==
    /\ result.op = "refund" /\ ~result.success
    /\ result.gateway_reply.raises
    /\ result.message = "Refund processing error: "
    /\ result.amount = 850

(* ------------------------------------------------------------------------ *)
\* C22: search_books_in_catalog returns the empty list whenever the search
\* term is blank (empty or only whitespace), the term is not a string, or the
\* field is not one of title, author, isbn compared without regard to case,
\* for every field and every catalog.
C22_Fields ==
    {<<"t", "i", "t", "l", "e">>, <<"a", "u", "t", "h", "o", "r">>,
     <<"i", "s", "b", "n">>}

C22_BlankOrInvalidSearchIsEmpty ==
    [][ Called("search") =>
          LET term == result'.search_term
              type == result'.search_type
          IN  ( \/ ~term.is_str
                \/ \A k \in 1 .. Len(term.chars) : term.chars[k] = " "
                \/ ~type.is_str
                \/ lower(strip(type.chars)) \notin C22_Fields )
              => result'.results = <<>>
      ]_vars

(* ------------------------------------------------------------------------ *)
\* C23: borrow_book_by_patron decides its outcome by the first failing check
\* in the order patron id format, book exists, available_copies > 0, open
\* records of the patron < 5, and succeeds exactly when all four hold (the
\* store calls succeeding): a patron with 5 open records asking for a book
\* with no copy available gets 'not available', and an invalid patron id is
\* reported even for an unknown book.
C23_OpenCountOf(p) ==
    Cardinality({i \in 1 .. Len(ledger) :
                    ledger[i].patron_id = p /\ ledger[i].return_date = None})

C24_ReturnFrame ==
    [][ (Called("return") /\ Succeeded) =>
          LET p == result'.patron_id
              b == result'.book_id
              mine(i) == /\ ledger[i].patron_id = p /\ ledger[i].book_id = b
                         /\ ledger[i].return_date = None
          IN  /\ Len(ledger') = Len(ledger)
              /\ \E i \in 1 .. Len(ledger) : mine(i)
              /\ \A i \in 1 .. Len(ledger) :
                     IF mine(i)
                     THEN ledger'[i] = [ledger[i] EXCEPT !.return_date = now]
                     ELSE ledger'[i] = ledger[i]
              /\ Len(books') = Len(books)
              /\ books'[b] = [books[b] EXCEPT
                                 !.available_copies = books[b].available_copies + 1]
              /\ \A c \in 1 .. Len(books) : c # b => books'[c] = books[c]
      ]_vars

\* one of two patrons holding the 2 copies of a book has returned: 1 copy is
\* available and the other patron's loan is still open
C24_Witness ==
    /\ result.op = "return" /\ result.success
    /\ books[result.book_id].total_copies = 2
    /\ books[result.book_id].available_copies = 1
    /\ Len(ledger) = 2
    /\ \E i, j \in 1 .. 2 :
           /\ ledger[i].patron_id = result.patron_id
           /\ ledger[i].book_id = result.book_id
           /\ ledger[i].return_date # None
           /\ ledger[j].patron_id # result.patron_id
           /\ ledger[j].book_id = result.book_id
           /\ ledger[j].return_date = None

(* ------------------------------------------------------------------------ *)
\* C25: the borrow path has no rollback: when insert_borrow_record succeeds
\* and the update_book_availability(book, -1) after it fails,
\* borrow_book_by_patron returns the failure 'Database error occurred while
\* updating book availability.' while the new open record stays in the
\* ledger and available_copies is unchanged, so a state with a borrow record
\* without its decrement is reachable.
C25_NoRollback ==
    [][ (/\ Called("borrow")
         /\ result'.store = <<TRUE, FALSE>>
         /\ Len(result'.patron_id) = 6
         /\ \A k \in 1 .. Len(result'.patron_id) : result'.patron_id[k] \in Digits
         /\ result'.book_id \in 1 .. Len(books)
         /\ books[result'.book_id].available_copies > 0
         /\ C23_OpenCountOf(result'.patron_id) < 5)
        => /\ ~Succeeded
           /\ result'.message =
                  "Database error occurred while updating book availability."
           /\ Len(ledger') = Len(ledger) + 1
           /\ SubSeq(ledger', 1, Len(ledger)) = ledger
           /\ ledger'[Len(ledger')].patron_id = result'.patron_id
           /\ ledger'[Len(ledger')].book_id = result'.book_id
           /\ ledger'[Len(ledger')].return_date = None
           /\ books' = books
      ]_vars

\* after the failed borrow the book has an open record and all its copies
C25_Witness ==
    /\ result.op = "borrow" /\ ~result.success
    /\ result.message = "Database error occurred while updating book availability."
    /\ books[result.book_id].available_copies = books[result.book_id].total_copies
    /\ \E i \in 1 .. Len(ledger) :
           /\ ledger[i].book_id = result.book_id
           /\ ledger[i].patron_id = result.patron_id
           /\ ledger[i].return_date = None

(* ------------------------------------------------------------------------ *)
\* C26: when two borrow_book_by_patron calls by different patrons for the
\* same book interleave store call by store call, both can pass the check
\* available_copies > 0 before either decrements; with one copy available
\* both calls then report success and, the store not refusing the
\* decrement, available_copies becomes negative.
C26_BothPassedCheck ==
    [][ \A c, d \in Callers :
          (/\ c # d
           /\ calls'[c].pc = "done" /\ calls'[d].pc = "done"
           /\ calls'[c].book_id = calls'[d].book_id
           /\ calls'[c].seen = 1 /\ calls'[d].seen = 1)
          => /\ calls'[c].success /\ calls'[d].success
             /\ calls'[c].patron_id # calls'[d].patron_id
             /\ books'[calls'[c].book_id].available_copies = -1
             /\ Cardinality({i \in 1 .. Len(ledger') :
                    /\ ledger'[i].book_id = calls'[c].book_id
                    /\ ledger'[i].return_date = None}) = 2
      ]_vars

\* both calls have returned success for the only copy of the book
C26_Witness ==
    /\ \A c \in Callers : calls[c].pc = "done" /\ calls[c].success /\ calls[c].seen = 1
    /\ Len(books) = 1
    /\ books[1].total_copies = 1
    /\ books[1].available_copies < 0

(* ------------------------------------------------------------------------ *)
\* C27: pay_late_fees decides its outcome by the first failing step in the
\* order: fee quotation missing or without fee_amount ('Unable to calculate
\* late fees.'), fee_amount <= 0 ('No late fees to pay for this book.'),
\* book not found ('Book not found.'), then the gateway call; in each of the
\* three failures the gateway is not invoked and the transaction id is null.
\* The quotation for an unknown book being 0.00, a call for a book that is
\* not in the catalog ends with 'No late fees to pay for this book.'.
C27_PayCheckOrder ==
    [][ Called("pay") =>
          LET quote == result'.quote
              refused == /\ ~Succeeded
                         /\ result'.gateway_calls = <<>>
                         /\ result'.transaction_id = NO_TRANSACTION
          IN  /\ IF "fee_amount" \notin DOMAIN quote
                 THEN refused /\ result'.message = "Unable to calculate late fees."
                 ELSE IF quote.fee_amount <= 0
                 THEN refused /\ result'.message = "No late fees to pay for this book."
                 ELSE IF ~result'.book_found
                 THEN refused /\ result'.message = "Book not found."
                 ELSE Len(result'.gateway_calls) = 1
              /\ (~result'.stubbed /\ result'.book_id \notin 1 .. Len(books))
                 => result'.message = "No late fees to pay for this book."
      ]_vars

\* a payment for a book that is not in the catalog
C27_Witness ==
    /\ result.op = "pay" /\ ~result.stubbed
    /\ result.book_id \notin 1 .. Len(books)
    /\ Len(result.patron_id) = 6
    /\ result.message = "No late fees to pay for this book."
    /\ result.gateway_calls = <<>>

(* ------------------------------------------------------------------------ *)
\* C28: the two fee computations agree: for every whole number d >= 1 of
\* days overdue the fee_amount of calculate_late_fee_for_book for an open
\* overdue loan is the fee_incurred of get_patron_status_report for a record
\* d days overdue, so for a patron with a single open loan total_late_fees is
\* that loan's quoted fee_amount at the same instant.
C28_Records(p) == {i \in 1 .. Len(ledger) : ledger[i].patron_id = p}

C28_SingleOpenLoan(p) ==
    /\ Cardinality(C28_Records(p)) = 1
    /\ \A i \in C28_Records(p) : ledger[i].return_date = None

C29_ReadOnlyOps == {"search", "late_fee", "status", "pay", "refund"}

C29_QueriesReadOnly ==
    [][ /\ result'.op \in C29_ReadOnlyOps => (books' = books /\ ledger' = ledger)
        /\ (/\ result.op = "pay" /\ result.success
            /\ Called("pay")
            /\ result'.patron_id = result.patron_id
            /\ result'.book_id = result.book_id)
           => /\ Len(result'.gateway_calls) = 1
              /\ result'.gateway_calls[1].amount = result.gateway_calls[1].amount
              /\ result'.quote = result.quote
      ]_vars

\* a fee paid with success, and then a second time
C29_Witness ==
    /\ result.op = "pay" /\ result.success
    /\ result.gateway_calls[1].amount = 450
    /\ ENABLED (/\ Pay({result.patron_id}, {result.book_id})
                /\ result'.success
                /\ result'.gateway_calls[1].amount = 450)

(* ------------------------------------------------------------------------ *)
\* C30 as stated: after a patron has returned a book d >= 1 days past its due
\* date, get_patron_status_report includes the positive fee_incurred of that
\* closed record in total_late_fees at every later instant, while
\* calculate_late_fee_for_book for the same patron and book returns 0.00
\* with 'no borrow record', so pay_late_fees for it fails with 'No late fees
\* to pay for this book.' and never reaches the gateway.
C30_ReturnedLate(p, b) ==
    {i \in 1 .. Len(ledger) :
        /\ ledger[i].patron_id = p /\ ledger[i].book_id = b
        /\ ledger[i].return_date # None
        /\ ledger[i].return_date > ledger[i].due_date}

C30_HasOpen(p, b) ==
    \E i \in 1 .. Len(ledger) :
        /\ ledger[i].patron_id = p /\ ledger[i].book_id = b
        /\ ledger[i].return_date = None

C30_Reported ==
    (Called("status") /\ Succeeded) =>
        \A b \in 1 .. Len(books) :
            \A i \in C30_ReturnedLate(result'.patron_id, b) :
                LET fee == C13_Fee(ledger[i].return_date - ledger[i].due_date)
                IN  /\ fee > 0
                    /\ result'.total_late_fees >= fee
                    /\ \E k \in 1 .. Len(result'.borrowing_history) :
                           /\ result'.borrowing_history[k].return_date
                                  = ledger[i].return_date
                           /\ result'.borrowing_history[k].borrow_date
                                  = ledger[i].borrow_date
                           /\ result'.borrowing_history[k].fee_incurred = fee

C30_NotPayable ==
    /\ Called("late_fee") =>
           /\ result'.fee_amount = 0
           /\ result'.status = "no borrow record"
    /\ Called("pay") =>
           /\ ~Succeeded
           /\ result'.message = "No late fees to pay for this book."
           /\ result'.gateway_calls = <<>>

C30_LateFeeUnpayable_AlsoBorrowedAgain ==
    [][ /\ C30_Reported
        /\ C30_ReturnedLate(result'.patron_id, result'.book_id) # {}
           => C30_NotPayable
      ]_vars

\* C30 amended: the same, the quotation and the payment being those made
\* while the patron has no open record for the book, that is, has not
\* borrowed it again.
C30_LateFeeUnpayable ==
    [][ /\ C30_Reported
        /\ (/\ C30_ReturnedLate(result'.patron_id, result'.book_id) # {}
            /\ ~C30_HasOpen(result'.patron_id, result'.book_id))
           => C30_NotPayable
      ]_vars

\* days after a late return the payment of its fee is refused
C30_Witness ==
    /\ result.op = "pay" /\ ~result.success
    /\ result.message = "No late fees to pay for this book."
    /\ ~C30_HasOpen(result.patron_id, result.book_id)
    /\ \E i \in C30_ReturnedLate(result.patron_id, result.book_id) :
           now > ledger[i].return_date

====
